---- MODULE Spec2Model ----
(***************************************************************************)
(* The prompt editor (AutocompleteTextarea) of ImageGenStudio, in the      *)
(* three versions the repository holds:                                    *)
(*   "corrector"  src/components/AutocompleteTextarea.tsx (correction only,*)
(*                focus-gated, adaptive cooldown)                          *)
(*   "twoStream"  src/unnamed/part_002 (completion and correction)         *)
(*   "completer"  src/unnamed/part_001 (completion only)                   *)
(* One behaviour mounts one version (variant) and runs its handlers.  A    *)
(* step is one task of the browser's event loop: the handler, the render   *)
(* it causes and the effects whose dependencies changed.                   *)
(* The module also holds the overlay function of the corrector             *)
(* (OverlaySpec) and the generation form around the editor with the        *)
(* capability matrix of src/lib/modelConfig.ts (FormSpec).                 *)
(***************************************************************************)
EXTENDS Integers, Sequences, FiniteSets, TLC

VARIABLES
    variant,                        \* which version of the component is mounted
    mounted,                        \* whether the component is mounted
    now,                            \* Date.now(), in ms
    value,                          \* prop value (the parent's prompt state)
    ghostText,                      \* useState: pending completion
    correctionText,                 \* useState: pending correction
    isLoading,                      \* useState: completion request busy flag
    isCorrecting,                   \* useState: correction request busy flag
    isFocused,                      \* useState (corrector only)
    activeElement,                  \* document.activeElement: "textarea", "acceptButton", "body"
    timers,                         \* pending setTimeout callbacks
    requests,                       \* fetches in flight (aborted ones included)
    issued,                         \* per kind, the number of requests sent so far
    abortControllerRef,             \* useRef: id of the last completion controller, 0 = null
    correctionAbortControllerRef,   \* useRef: id of the last correction controller, 0 = null
    debounceTimerRef,               \* useRef: the completion debounce timer
    pendingSuggestionTimerRef,      \* useRef (corrector): the correction timer
    correctionCleanupTimer,         \* the `timer` the correction effect's cleanup closes over
    lastSuggestionTimestampRef,     \* useRef (corrector): cooldown timestamp
    hasProvidedSuggestionRef,       \* useRef (corrector)
    tabPressTimerRef,               \* useRef (twoStream): the double-Tab window timer
    lastTabPressTimeRef,            \* useRef (twoStream)
    studio                          \* the useState cells of ImageStudio, the form around the editor

vars == << variant, mounted, now, value, ghostText, correctionText, isLoading, isCorrecting,
           isFocused, activeElement, timers, requests, issued, abortControllerRef,
           correctionAbortControllerRef, debounceTimerRef, pendingSuggestionTimerRef,
           correctionCleanupTimer, lastSuggestionTimestampRef, hasProvidedSuggestionRef,
           tabPressTimerRef, lastTabPressTimeRef, studio >>

editorState == << value, ghostText, correctionText, isLoading, isCorrecting, isFocused >>
completionRefs == << abortControllerRef, debounceTimerRef >>
cooldownRefs == << lastSuggestionTimestampRef, hasProvidedSuggestionRef >>
tabRefs == << tabPressTimerRef, lastTabPressTimeRef >>

----------------------------------------------------------------------------
(* Bounds of the model *)

\* requests sent per kind in one behaviour
MaxRequests == 2
\* clock ticks in one behaviour of the corrector, and the ms per tick
CorrectorMaxTicks == 4
CorrectorTickMs == 3000
\* clock ticks in one behaviour of the twoStream editor or the completer, and
\* the ms per tick
DebounceMaxTicks == 4
DebounceTickMs == 300
\* double-Tab window timers pending at once
MaxTabTimers == 2
\* length of the longest text an accepted completion may produce
MaxTextLen == 8

(* Program constants *)
INITIAL_CORRECTION_DELAY_MS == 3000
POST_COMPLETION_DELAY_MS == 8000
MIN_CORRECTION_LENGTH == 5
MIN_FETCH_LENGTH == 3
COMPLETION_DEBOUNCE_MS == 400
CORRECTION_DEBOUNCE_MS == 600
DOUBLE_TAB_WINDOW_MS == 300

----------------------------------------------------------------------------
(* Strings are sequences of one-character strings *)

Max(a, b) == IF a >= b THEN a ELSE b

IsWhitespace(c) == c = " "

RECURSIVE trimStart(_)
trimStart(s) ==
    IF s # <<>> /\ IsWhitespace(Head(s)) THEN trimStart(Tail(s)) ELSE s

RECURSIVE trimEnd(_)
trimEnd(s) ==
    IF s # <<>> /\ IsWhitespace(s[Len(s)]) THEN trimEnd(SubSeq(s, 1, Len(s) - 1)) ELSE s

\* String.prototype.trim
trim(s) == trimEnd(trimStart(s))

\* the texts a change event may carry: below and above both thresholds, with
\* and without surrounding whitespace
TypedTexts ==
    { <<>>,
      <<" ", "a", "b", " ">>,
      <<" ", "a", "b", "c", "d", " ">>,
      <<"a", "b", "c", "d", "e">>,
      <<"a", "b", "c", "d", "e", " ">> }

\* what the suggestion service may answer in mode 'correct' to a prompt: nothing,
\* the prompt unchanged, or another text; the service trims its answer
CorrectionAnswers(prompt) ==
    { <<>>, trim(prompt), <<"A", "b", "c", "d", "e">>, <<"A", "b", "c">> }

\* what the suggestion service may answer in mode 'complete'
CompletionAnswers == { <<>>, <<"d", "e">> }

Answers(kind, prompt) ==
    IF kind = "correct" THEN CorrectionAnswers(prompt) ELSE CompletionAnswers

----------------------------------------------------------------------------
(* Timers and requests *)

NoTimer == [kind |-> "none", text |-> <<>>, fireAt |-> 0]

\* the handle of a timer that has fired or was cleared: truthy, and clearTimeout
\* of it does nothing
SpentTimer == [kind |-> "fired", text |-> <<>>, fireAt |-> 0]

Timer(kind, text, delay) == [kind |-> kind, text |-> text, fireAt |-> now + delay]

clearTimeout(tms, t) == tms \ {t}

Request(kind, id, prompt) == [kind |-> kind, id |-> id, prompt |-> prompt, aborted |-> FALSE]

\* faulty variant of abort: the controller is never aborted
abort_never(reqs, kind, ref) == reqs

\* AbortController.abort() on the controller a ref holds (0: the ref is null)
abort(reqs, kind, ref) ==
    { IF r.kind = kind /\ r.id = ref THEN [r EXCEPT !.aborted = TRUE] ELSE r : r \in reqs }

----------------------------------------------------------------------------
(* The clock *)

corrector == variant = "corrector"
twoStream == variant = "twoStream"
completer == variant = "completer"

TickMs == IF corrector THEN CorrectorTickMs ELSE DebounceTickMs

MaxTicks == IF corrector THEN CorrectorMaxTicks ELSE DebounceMaxTicks

\* Date.now() at mount: late enough that the initial refs (timestamps of 0) lie
\* further back than every delay, as they do under the real clock
StartTime(v) == IF v = "corrector" THEN POST_COMPLETION_DELAY_MS ELSE DOUBLE_TAB_WINDOW_MS

Tick ==
    /\ now + TickMs <= StartTime(variant) + MaxTicks * TickMs
    /\ now' = now + TickMs
    /\ UNCHANGED << variant, mounted, studio, activeElement, editorState, timers, requests, issued, completionRefs,
                    correctionAbortControllerRef, pendingSuggestionTimerRef,
                    correctionCleanupTimer, cooldownRefs, tabRefs >>

----------------------------------------------------------------------------
(* fetchCorrection / fetchCompletion: the part that runs before the fetch is sent *)

\* faulty variant of tooShortToFetch: the length is taken without trimming
tooShortToFetch_untrimmed(prompt) == prompt = <<>> \/ Len(prompt) < MIN_FETCH_LENGTH

\* the early return of fetchCorrection and fetchCompletion (line 73)
tooShortToFetch(prompt) == trim(prompt) = <<>> \/ Len(trim(prompt)) < MIN_FETCH_LENGTH

fetchCorrection(prompt) ==
    LET reqs == abort(requests, "correct", correctionAbortControllerRef)
        id == issued["correct"] + 1
    IN  IF tooShortToFetch(prompt)
        THEN /\ requests' = reqs
             /\ correctionText' = <<>>
             /\ isCorrecting' = FALSE
             /\ UNCHANGED << issued, correctionAbortControllerRef >>
        ELSE /\ id <= MaxRequests
             /\ requests' = reqs \cup {Request("correct", id, prompt)}
             /\ issued' = [issued EXCEPT !["correct"] = id]
             /\ correctionAbortControllerRef' = id
             /\ isCorrecting' = TRUE
             /\ UNCHANGED correctionText

\* whether the Accept button is rendered (line 364)
acceptButtonRendered(foc, corr) == foc /\ corr # <<>>

\* document.activeElement after a render: the focused Accept button is unmounted
\* when its condition (line 364) no longer holds, and the focus falls to the body
focusAfterRender(elem, foc, corr) ==
    IF elem = "acceptButton" /\ ~acceptButtonRendered(foc, corr) THEN "body" ELSE elem

\* faulty variant of correctionAccepted: the abort flag is not looked at
correctionAccepted_ignoringAbort(r, ok, completion) ==
    /\ ok
    /\ completion # <<>>
    /\ trim(completion) # trim(r.prompt)

\* faulty variant of correctionAccepted: the body of a failed response is used
correctionAccepted_ignoringFailure(r, ok, completion) ==
    /\ ~r.aborted
    /\ completion # <<>>
    /\ trim(completion) # trim(r.prompt)

\* the condition under which a correction response is stored (line 102)
correctionAccepted(r, ok, completion) ==
    /\ ok
    /\ ~r.aborted
    /\ completion # <<>>
    /\ trim(completion) # trim(r.prompt)

\* a correction fetch settles: the response arrives (ok), or the fetch or the
\* body's parse fails, or the abort rejects it
correctionSettles(r, ok, completion) ==
    /\ r \in requests /\ r.kind = "correct"
    /\ completion \in CorrectionAnswers(r.prompt)
    /\ requests' = requests \ {r}
    /\ correctionText' = IF correctionAccepted(r, ok, completion) THEN completion ELSE <<>>
    /\ lastSuggestionTimestampRef' =
          IF corrector /\ correctionAccepted(r, ok, completion)
          THEN now ELSE lastSuggestionTimestampRef
    /\ hasProvidedSuggestionRef' =
          IF corrector /\ correctionAccepted(r, ok, completion)
          THEN TRUE ELSE hasProvidedSuggestionRef
    /\ isCorrecting' = IF r.aborted THEN isCorrecting ELSE FALSE
    /\ activeElement' = focusAfterRender(activeElement, isFocused, correctionText')
    /\ UNCHANGED << variant, mounted, studio, now, value, ghostText, isLoading, isFocused, timers, issued,
                    completionRefs, correctionAbortControllerRef,
                    pendingSuggestionTimerRef, correctionCleanupTimer, tabRefs >>

----------------------------------------------------------------------------
(* The corrector: src/components/AutocompleteTextarea.tsx *)

\* faulty variant of correctionDelay: the initial delay is used for the whole session
correctionDelay_alwaysInitial(lastTs, hasProvided) == INITIAL_CORRECTION_DELAY_MS

\* the delay of the scheduled fetch (lines 136-140)
correctionDelay(lastTs, hasProvided) ==
    LET baseDelay == IF hasProvided THEN POST_COMPLETION_DELAY_MS
                     ELSE INITIAL_CORRECTION_DELAY_MS
        earliestNextAllowed == lastTs + baseDelay
        cooldownRemaining == Max(earliestNextAllowed - now, 0)
    IN  Max(baseDelay, cooldownRemaining)

\* the cleanup the previous run of the scheduling effect returned (lines 153-160);
\* cleanup = NoTimer: that run returned none
schedulingCleanup(tms, ref, cleanup) ==
    IF cleanup = NoTimer THEN [tms |-> tms, ref |-> ref]
    ELSE IF ref # NoTimer THEN [tms |-> clearTimeout(tms, ref), ref |-> NoTimer]
    ELSE [tms |-> clearTimeout(tms, cleanup), ref |-> ref]

\* faulty variant of shouldScheduleCorrection: the focus state is not looked at
shouldScheduleCorrection_ignoringFocus(foc, val) ==
    Len(trim(val)) >= MIN_CORRECTION_LENGTH

\* faulty variant of shouldScheduleCorrection: the length is taken without trimming
shouldScheduleCorrection_untrimmed(foc, val) ==
    foc /\ Len(val) >= MIN_CORRECTION_LENGTH

\* whether the scheduling effect schedules a fetch for this focus state and
\* text (lines 125 and 135)
shouldScheduleCorrection(foc, val) == foc /\ Len(trim(val)) >= MIN_CORRECTION_LENGTH

\* the scheduling effect (lines 123-168), run because value or isFocused changed:
\* the timers, the ref, the cleanup's timer, and whether correctionText is cleared
correctionSchedulingEffect(tms, ref, cleanup, foc, val, lastTs, hasProvided) ==
    LET c == schedulingCleanup(tms, ref, cleanup)
        cleared == clearTimeout(c.tms, c.ref)
        timer == Timer("correct", val, correctionDelay(lastTs, hasProvided))
    IN  IF shouldScheduleCorrection(foc, val)
        THEN [tms |-> cleared \cup {timer}, ref |-> timer, cleanup |-> timer, clear |-> FALSE]
        ELSE [tms |-> cleared, ref |-> NoTimer, cleanup |-> NoTimer, clear |-> TRUE]

\* handleFocus (lines 214-216) and, when isFocused changed, the scheduling effect
handleFocus ==
    /\ corrector /\ activeElement # "textarea"
    /\ activeElement' = "textarea"
    /\ isFocused' = TRUE
    /\ IF isFocused
       THEN UNCHANGED << timers, pendingSuggestionTimerRef, correctionCleanupTimer,
                         correctionText >>
       ELSE LET e == correctionSchedulingEffect(timers, pendingSuggestionTimerRef,
                         correctionCleanupTimer, TRUE, value,
                         lastSuggestionTimestampRef, hasProvidedSuggestionRef)
            IN  /\ timers' = e.tms
                /\ pendingSuggestionTimerRef' = e.ref
                /\ correctionCleanupTimer' = e.cleanup
                /\ correctionText' = IF e.clear THEN <<>> ELSE correctionText
    /\ UNCHANGED << variant, mounted, studio, now, value, ghostText, isLoading, isCorrecting, requests, issued,
                    completionRefs, correctionAbortControllerRef, cooldownRefs, tabRefs >>

\* handleBlur (lines 219-237) and the two effects that depend on isFocused
\* (lines 123-132 and 240-249); relatedTarget is the element the focus moves to
handleBlur(relatedTarget) ==
    /\ corrector /\ activeElement = "textarea"
    /\ activeElement' = relatedTarget
    /\ IF relatedTarget = "acceptButton"
       THEN /\ acceptButtonRendered(isFocused, correctionText)
            /\ UNCHANGED << variant, mounted, studio, now, editorState, timers, requests, issued,
                            completionRefs, correctionAbortControllerRef,
                            pendingSuggestionTimerRef, correctionCleanupTimer,
                            cooldownRefs, tabRefs >>
       ELSE /\ isFocused' = FALSE
            /\ requests' = abort(requests, "correct", correctionAbortControllerRef)
            /\ correctionText' = <<>>
            /\ isCorrecting' = FALSE
            /\ LET e == correctionSchedulingEffect(timers, pendingSuggestionTimerRef,
                            correctionCleanupTimer, FALSE, value,
                            lastSuggestionTimestampRef, hasProvidedSuggestionRef)
               IN  /\ timers' = e.tms
                   /\ pendingSuggestionTimerRef' = e.ref
                   /\ correctionCleanupTimer' = e.cleanup
            /\ UNCHANGED << variant, mounted, studio, now, value, ghostText, isLoading, issued,
                            completionRefs, correctionAbortControllerRef, cooldownRefs,
                            tabRefs >>

\* handleChange (lines 209-211): the parent stores the text, the scheduling effect runs
corrector_handleChange(text) ==
    /\ corrector /\ activeElement = "textarea"
    /\ text \in TypedTexts /\ text # value
    /\ value' = text
    /\ LET e == correctionSchedulingEffect(timers, pendingSuggestionTimerRef,
                    correctionCleanupTimer, isFocused, text,
                    lastSuggestionTimestampRef, hasProvidedSuggestionRef)
       IN  /\ timers' = e.tms
           /\ pendingSuggestionTimerRef' = e.ref
           /\ correctionCleanupTimer' = e.cleanup
           /\ correctionText' = IF e.clear THEN <<>> ELSE correctionText
    /\ UNCHANGED << variant, mounted, studio, activeElement, now, ghostText, isLoading, isCorrecting, isFocused, requests,
                    issued, completionRefs, correctionAbortControllerRef, cooldownRefs,
                    tabRefs >>

\* faulty variant of correctedValue: the correction is appended, as a completion is
correctedValue_appended(val, corr) == val \o corr

\* the text acceptCorrection hands to onChange (line 174)
correctedValue(val, corr) == corr

\* acceptCorrection (lines 171-191) with its zero-delay focus callback and, when
\* the text changed, the scheduling effect
corrector_acceptCorrection ==
    IF correctionText = <<>>
    THEN UNCHANGED << variant, mounted, studio, activeElement, now, editorState, timers, requests, issued, completionRefs,
                      correctionAbortControllerRef, pendingSuggestionTimerRef,
                      correctionCleanupTimer, cooldownRefs, tabRefs >>
    ELSE /\ value' = correctedValue(value, correctionText)
         /\ correctionText' = <<>>
         /\ activeElement' = "textarea"
         /\ lastSuggestionTimestampRef' = now
         /\ hasProvidedSuggestionRef' = TRUE
         /\ LET tms == clearTimeout(timers, pendingSuggestionTimerRef)
                e == correctionSchedulingEffect(tms, NoTimer, correctionCleanupTimer,
                         isFocused, correctedValue(value, correctionText), now, TRUE)
            IN  IF correctedValue(value, correctionText) # value
                THEN /\ timers' = e.tms
                     /\ pendingSuggestionTimerRef' = e.ref
                     /\ correctionCleanupTimer' = e.cleanup
                ELSE /\ timers' = tms
                     /\ pendingSuggestionTimerRef' = NoTimer
                     /\ UNCHANGED correctionCleanupTimer
         /\ UNCHANGED << variant, mounted, studio, now, ghostText, isLoading, isCorrecting, isFocused,
                         requests, issued, completionRefs, correctionAbortControllerRef,
                         tabRefs >>

\* faulty variant of isAcceptKey: every key is taken for the accept key
isAcceptKey_anyKey(key) == TRUE

\* the key test of handleKeyDown (line 195; part_002 line 255)
isAcceptKey(key) == key = "Tab"

\* handleKeyDown (lines 194-206)
corrector_handleKeyDown(key) ==
    /\ corrector /\ activeElement = "textarea"
    /\ IF isAcceptKey(key)
       THEN corrector_acceptCorrection
       ELSE /\ key = "Escape"
            /\ correctionText' = <<>>
            /\ UNCHANGED << variant, mounted, studio, activeElement, now, value, ghostText, isLoading, isCorrecting, isFocused,
                            timers, requests, issued, completionRefs,
                            correctionAbortControllerRef, pendingSuggestionTimerRef,
                            correctionCleanupTimer, cooldownRefs, tabRefs >>

\* the Accept button's onMouseDown / onTouchStart (lines 364-385)
acceptButton ==
    /\ corrector /\ acceptButtonRendered(isFocused, correctionText)
    /\ corrector_acceptCorrection

\* the focus leaves the Accept button for an element outside the editor; the
\* button has no blur handler (lines 366-382)
acceptButtonBlur ==
    /\ corrector /\ activeElement = "acceptButton"
    /\ activeElement' = "body"
    /\ UNCHANGED << variant, mounted, studio, now, editorState, timers, requests, issued, completionRefs,
                    correctionAbortControllerRef, pendingSuggestionTimerRef,
                    correctionCleanupTimer, cooldownRefs, tabRefs >>

\* the callback of the timer the scheduling effect set (lines 146-149)
corrector_timerFires(t) ==
    /\ corrector
    /\ t \in timers /\ t.kind = "correct" /\ now >= t.fireAt
    /\ fetchCorrection(t.text)
    /\ timers' = clearTimeout(timers, t)
    /\ pendingSuggestionTimerRef' = NoTimer
    /\ activeElement' = focusAfterRender(activeElement, isFocused, correctionText')
    /\ UNCHANGED << variant, mounted, studio, now, value, ghostText, isLoading, isFocused, completionRefs,
                    correctionCleanupTimer, cooldownRefs, tabRefs >>

correctorNext ==
    \/ handleFocus
    \/ \E relatedTarget \in {"acceptButton", "body"} : handleBlur(relatedTarget)
    \/ \E text \in TypedTexts : corrector_handleChange(text)
    \/ \E key \in {"Tab", "Escape"} : corrector_handleKeyDown(key)
    \/ acceptButton
    \/ acceptButtonBlur
    \/ \E t \in timers : corrector_timerFires(t)
    \/ \E r \in requests, ok \in BOOLEAN : \E c \in Answers(r.kind, r.prompt) :
          corrector /\ correctionSettles(r, ok, c)
    \/ corrector /\ Tick

----------------------------------------------------------------------------
(* fetchCompletion, as in src/unnamed/part_002 and src/unnamed/part_001 *)

\* faulty variant of fetchCompletionAborts: the correction request is aborted too
fetchCompletionAborts_both(reqs) ==
    abort(abort(reqs, "complete", abortControllerRef),
          "correct", correctionAbortControllerRef)

\* the abort fetchCompletion starts with (part_002 lines 67-69)
fetchCompletionAborts(reqs) == abort(reqs, "complete", abortControllerRef)

fetchCompletion(prompt) ==
    LET reqs == fetchCompletionAborts(requests)
        id == issued["complete"] + 1
    IN  IF tooShortToFetch(prompt)
        THEN /\ requests' = reqs
             /\ ghostText' = <<>>
             /\ isLoading' = FALSE
             /\ UNCHANGED << issued, abortControllerRef >>
        ELSE /\ id <= MaxRequests
             /\ requests' = reqs \cup {Request("complete", id, prompt)}
             /\ issued' = [issued EXCEPT !["complete"] = id]
             /\ abortControllerRef' = id
             /\ isLoading' = TRUE
             /\ UNCHANGED ghostText

\* the condition under which a completion response is stored (line 101)
completionAccepted(r, ok, completion) ==
    /\ ok
    /\ ~r.aborted
    /\ completion # <<>>

completionSettles(r, ok, completion) ==
    /\ r \in requests /\ r.kind = "complete"
    /\ completion \in CompletionAnswers
    /\ requests' = requests \ {r}
    /\ ghostText' = IF completionAccepted(r, ok, completion) THEN completion ELSE <<>>
    /\ isLoading' = IF r.aborted THEN isLoading ELSE FALSE
    /\ UNCHANGED << variant, mounted, studio, activeElement, now, value, correctionText, isCorrecting, isFocused, timers,
                    issued, completionRefs, correctionAbortControllerRef,
                    pendingSuggestionTimerRef, correctionCleanupTimer, cooldownRefs,
                    tabRefs >>

\* the debounce timer's callback (part_002 lines 186-188, part_001 lines 95-97)
completionTimerFires(t) ==
    /\ t \in timers /\ t.kind = "complete" /\ now >= t.fireAt
    /\ fetchCompletion(t.text)
    /\ timers' = clearTimeout(timers, t)
    /\ debounceTimerRef' = IF debounceTimerRef = t THEN SpentTimer ELSE debounceTimerRef
    /\ UNCHANGED << variant, mounted, studio, activeElement, now, value, correctionText, isCorrecting, isFocused,
                    correctionAbortControllerRef, pendingSuggestionTimerRef,
                    correctionCleanupTimer, cooldownRefs, tabRefs >>

----------------------------------------------------------------------------
(* The twoStream editor: src/unnamed/part_002 *)

\* the aborts in the debounce effect's cleanup (lines 195-200)
debounceCleanupAborts(reqs) ==
    abort(abort(reqs, "complete", abortControllerRef),
          "correct", correctionAbortControllerRef)

\* the timers left by the debounce effect's cleanup and its first lines
\* (lines 177-179 and 192-194)
debounceClearsTimer(tms) == clearTimeout(tms, debounceTimerRef)

\* faulty variant of correctionEffectCleanup: the effect returns no cleanup
correctionEffectCleanup_missing(tms) == tms

\* the cleanup of the correction effect (line 212)
correctionEffectCleanup(tms) == clearTimeout(tms, correctionCleanupTimer)

\* whether the correction effect schedules a fetch for this text (line 207)
substantialText(val) == Len(trim(val)) >= MIN_CORRECTION_LENGTH

\* a render with a new value: both effects' cleanups, then both effects
\* (lines 175-216); tms: the timers as the handler left them
twoStream_valueChanged(val, tms) ==
    LET completionTimer == Timer("complete", val, COMPLETION_DEBOUNCE_MS)
        correctionTimer == Timer("correct", val, CORRECTION_DEBOUNCE_MS)
        cleared == correctionEffectCleanup(debounceClearsTimer(tms))
    IN  /\ value' = val
        /\ requests' = debounceCleanupAborts(requests)
        /\ ghostText' = <<>>
        /\ correctionText' = <<>>
        /\ debounceTimerRef' = completionTimer
        /\ IF substantialText(val)
           THEN /\ timers' = cleared \cup {completionTimer, correctionTimer}
                /\ correctionCleanupTimer' = correctionTimer
           ELSE /\ timers' = cleared \cup {completionTimer}
                /\ correctionCleanupTimer' = NoTimer

\* handleChange (lines 293-295)
twoStream_handleChange(text) ==
    /\ twoStream
    /\ text \in TypedTexts /\ text # value
    /\ twoStream_valueChanged(text, timers)
    /\ UNCHANGED << variant, mounted, studio, activeElement, now, isLoading, isCorrecting, isFocused, issued,
                    abortControllerRef, correctionAbortControllerRef,
                    pendingSuggestionTimerRef, cooldownRefs, tabRefs >>

\* faulty variant of acceptedCompletion: the completion replaces the text
acceptedCompletion_replacing(val, ghost) == ghost

\* the text acceptGhostText hands to onChange (line 222)
acceptedCompletion(val, ghost) == val \o ghost

\* acceptGhostText (lines 219-234); tms: the timers as the handler left them
twoStream_acceptGhostText(tms) ==
    IF ghostText = <<>>
    THEN /\ timers' = tms
         /\ UNCHANGED << value, ghostText, correctionText, requests, debounceTimerRef,
                         correctionCleanupTimer >>
    ELSE /\ Len(value) + Len(ghostText) <= MaxTextLen
         /\ twoStream_valueChanged(acceptedCompletion(value, ghostText), tms)

\* acceptCorrection (lines 237-251); tms: the timers as the handler left them
twoStream_acceptCorrection(tms) ==
    IF correctionText = <<>>
    THEN /\ timers' = tms
         /\ UNCHANGED << value, ghostText, correctionText, requests, debounceTimerRef,
                         correctionCleanupTimer >>
    ELSE IF correctionText = value
    THEN /\ timers' = tms
         /\ correctionText' = <<>>
         /\ UNCHANGED << value, ghostText, requests, debounceTimerRef,
                         correctionCleanupTimer >>
    ELSE twoStream_valueChanged(correctionText, tms)

\* whether a Tab press is the second of a double Tab (line 260)
isDoubleTab == now - lastTabPressTimeRef < DOUBLE_TAB_WINDOW_MS /\ tabPressTimerRef # NoTimer

\* handleKeyDown (lines 254-290)
twoStream_handleKeyDown(key) ==
    /\ twoStream
    /\ IF isAcceptKey(key)
       THEN IF isDoubleTab
            THEN /\ lastTabPressTimeRef' = 0
                 /\ tabPressTimerRef' = SpentTimer
                 /\ twoStream_acceptGhostText(clearTimeout(timers, tabPressTimerRef))
            ELSE LET tabTimer == Timer("tab", <<>>, DOUBLE_TAB_WINDOW_MS)
                 IN  /\ Cardinality({t \in timers \cup {tabTimer} : t.kind = "tab"})
                            <= MaxTabTimers
                     /\ lastTabPressTimeRef' = now
                     /\ tabPressTimerRef' = tabTimer
                     /\ twoStream_acceptCorrection(timers \cup {tabTimer})
       ELSE /\ key = "Escape"
            /\ ghostText' = <<>>
            /\ correctionText' = <<>>
            /\ UNCHANGED << value, timers, requests, debounceTimerRef,
                            correctionCleanupTimer, tabRefs >>
    /\ UNCHANGED << variant, mounted, studio, activeElement, now, isLoading, isCorrecting, isFocused, issued,
                    abortControllerRef, correctionAbortControllerRef,
                    pendingSuggestionTimerRef, cooldownRefs >>

\* the mobile buttons' onClick (lines 393-416); a button is rendered while its
\* suggestion is not empty
twoStream_button(kind) ==
    /\ twoStream
    /\ IF kind = "complete"
       THEN ghostText # <<>> /\ twoStream_acceptGhostText(timers)
       ELSE correctionText # <<>> /\ twoStream_acceptCorrection(timers)
    /\ UNCHANGED << variant, mounted, studio, activeElement, now, isLoading, isCorrecting, isFocused, issued,
                    abortControllerRef, correctionAbortControllerRef,
                    pendingSuggestionTimerRef, cooldownRefs, tabRefs >>

\* the callback of the correction effect's timer (lines 208-210)
twoStream_correctionTimerFires(t) ==
    /\ twoStream
    /\ t \in timers /\ t.kind = "correct" /\ now >= t.fireAt
    /\ fetchCorrection(t.text)
    /\ timers' = clearTimeout(timers, t)
    /\ UNCHANGED << variant, mounted, studio, activeElement, now, value, ghostText, isLoading, isFocused, completionRefs,
                    pendingSuggestionTimerRef, correctionCleanupTimer, cooldownRefs,
                    tabRefs >>

\* the callback of the double-Tab window timer (lines 280-282)
tabTimerFires(t) ==
    /\ twoStream
    /\ t \in timers /\ t.kind = "tab" /\ now >= t.fireAt
    /\ lastTabPressTimeRef' = 0
    /\ timers' = clearTimeout(timers, t)
    /\ tabPressTimerRef' = IF tabPressTimerRef = t THEN SpentTimer ELSE tabPressTimerRef
    /\ UNCHANGED << variant, mounted, studio, activeElement, now, editorState, requests, issued, completionRefs,
                    correctionAbortControllerRef, pendingSuggestionTimerRef,
                    correctionCleanupTimer, cooldownRefs >>

twoStreamNext ==
    \/ \E text \in TypedTexts : twoStream_handleChange(text)
    \/ \E key \in {"Tab", "Escape"} : twoStream_handleKeyDown(key)
    \/ \E kind \in {"complete", "correct"} : twoStream_button(kind)
    \/ \E t \in timers : twoStream /\ completionTimerFires(t)
    \/ \E t \in timers : twoStream_correctionTimerFires(t)
    \/ \E t \in timers : tabTimerFires(t)
    \/ \E r \in requests, ok \in BOOLEAN : \E c \in Answers(r.kind, r.prompt) :
          twoStream /\ (completionSettles(r, ok, c) \/ correctionSettles(r, ok, c))
    \/ twoStream /\ Tick

----------------------------------------------------------------------------
(* The completer: src/unnamed/part_001 *)

\* the abort in the debounce effect's cleanup (lines 104-106)
completer_cleanupAborts(reqs) == abort(reqs, "complete", abortControllerRef)

\* a render with a new value: the debounce effect's cleanup, then the effect
\* (lines 85-108)
completer_valueChanged(val) ==
    LET timer == Timer("complete", val, COMPLETION_DEBOUNCE_MS)
    IN  /\ value' = val
        /\ requests' = completer_cleanupAborts(requests)
        /\ ghostText' = <<>>
        /\ timers' = clearTimeout(timers, debounceTimerRef) \cup {timer}
        /\ debounceTimerRef' = timer

\* the textarea's onChange (line 182)
completer_handleChange(text) ==
    /\ completer
    /\ text \in TypedTexts /\ text # value
    /\ completer_valueChanged(text)
    /\ UNCHANGED << variant, mounted, studio, activeElement, now, correctionText, isLoading, isCorrecting, isFocused,
                    issued, abortControllerRef, correctionAbortControllerRef,
                    pendingSuggestionTimerRef, correctionCleanupTimer, cooldownRefs,
                    tabRefs >>

\* handleKeyDown (lines 111-132)
completer_handleKeyDown(key) ==
    /\ completer
    /\ IF key = "Tab" /\ ghostText # <<>>
       THEN /\ Len(value) + Len(ghostText) <= MaxTextLen
            /\ completer_valueChanged(acceptedCompletion(value, ghostText))
       ELSE IF key = "Escape" /\ ghostText # <<>>
       THEN /\ ghostText' = <<>>
            /\ UNCHANGED << value, requests, timers, debounceTimerRef >>
       ELSE /\ key \in {"Tab", "Escape"}
            /\ UNCHANGED << value, ghostText, requests, timers, debounceTimerRef >>
    /\ UNCHANGED << variant, mounted, studio, activeElement, now, correctionText, isLoading, isCorrecting, isFocused,
                    issued, abortControllerRef, correctionAbortControllerRef,
                    pendingSuggestionTimerRef, correctionCleanupTimer, cooldownRefs,
                    tabRefs >>

completerNext ==
    \/ \E text \in TypedTexts : completer_handleChange(text)
    \/ \E key \in {"Tab", "Escape"} : completer_handleKeyDown(key)
    \/ \E t \in timers : completer /\ completionTimerFires(t)
    \/ \E r \in requests, ok \in BOOLEAN : \E c \in Answers(r.kind, r.prompt) :
          completer /\ completionSettles(r, ok, c)
    \/ completer /\ Tick

----------------------------------------------------------------------------

\* uploadedImage = null, referenceImageDimensions = null
NoImage == 0
NoDimensions == [width |-> -1, height |-> -1]

\* ImageStudio after its first render (the useState initial values, lines 296-303).
\* loads holds the file reads and image decodings in flight, generations the
\* calls of generateImage that have not settled.  modelSelector
\* says which ModelSelector of the repository the form renders: "gated"
\* (src/components/ModelSelector.tsx lines 59-137, Qwen disabled by
\* !hasReferenceImage) or "open" (src/unnamed/part_005, Qwen always enabled).
mountedStudio(selector) ==
    [ modelSelector            |-> selector,
      selectedLayout           |-> "square",
      selectedModel            |-> "google",
      error                    |-> "null",
      uploadedImage            |-> NoImage,
      referenceImageDimensions |-> NoDimensions,
      loads                    |-> {},
      prompt                   |-> <<>>,
      isLoading                |-> FALSE,
      generatedImage           |-> "null",
      generations              |-> {} ]

\* the debounce effect's first run, at mount, schedules a fetch for the empty text
\* (part_002 lines 186-188, part_001 lines 95-97)
mountTimer(v) ==
    [kind |-> "complete", text |-> <<>>, fireAt |-> StartTime(v) + COMPLETION_DEBOUNCE_MS]

\* the state after the first render and its effects
Init ==
    /\ variant \in {"corrector", "twoStream", "completer"}
    /\ mounted = TRUE
    /\ now = StartTime(variant)
    /\ value = <<>>
    /\ ghostText = <<>>
    /\ correctionText = <<>>
    /\ isLoading = FALSE
    /\ isCorrecting = FALSE
    /\ isFocused = FALSE
    /\ activeElement = "body"
    /\ timers = IF variant = "corrector" THEN {} ELSE {mountTimer(variant)}
    /\ requests = {}
    /\ issued = [k \in {"complete", "correct"} |-> 0]
    /\ abortControllerRef = 0
    /\ correctionAbortControllerRef = 0
    /\ debounceTimerRef = IF variant = "corrector" THEN NoTimer ELSE mountTimer(variant)
    /\ pendingSuggestionTimerRef = NoTimer
    /\ correctionCleanupTimer = NoTimer
    /\ lastSuggestionTimestampRef = 0
    /\ hasProvidedSuggestionRef = FALSE
    /\ tabPressTimerRef = NoTimer
    /\ lastTabPressTimeRef = 0
    /\ studio = mountedStudio("gated")

Next == correctorNext \/ twoStreamNext \/ completerNext

Spec == Init /\ [][Next]_vars

----------------------------------------------------------------------------
(* Properties *)

\* the step is the settling of request r (no other step removes a request)
settles(r) == r \in requests /\ requests' = requests \ {r}

\* the step sends request r
sends(r) == r \in requests' /\ r.id > issued[r.kind]

\* the step stores the response of request r as the suggestion of its kind
stores(r) ==
    /\ settles(r)
    /\ IF r.kind = "correct" THEN correctionText' # <<>> ELSE ghostText' # <<>>

inFlight(kind) == { r \in requests : r.kind = kind /\ ~r.aborted }

correctionTimers == { t \in timers : t.kind = "correct" }

\* C1: in the corrector, the response to a correction request for text T is
\* stored as the pending correction only if the editor's text still equals T
\* when the response arrives.
C1_StaleCorrectionIsDiscarded ==
    [][\A r \in requests :
          (corrector /\ r.kind = "correct" /\ stores(r)) => value = r.prompt]_vars

\* C2: of the requests of one kind, only the response of the most recently
\* sent one is ever stored as the suggestion; the response of a request that a
\* later request of its kind has superseded is never stored.
C2_OnlyLatestRequestIsStored ==
    [][\A r \in requests : stores(r) => r.id = issued[r.kind]]_vars

\* C2 witness: the latest correction request's response has been stored while
\* the request it superseded is still in flight.
C2_Witness ==
    /\ correctionText # <<>>
    /\ inFlight("correct") = {}
    /\ \E r \in requests : r.kind = "correct" /\ r.aborted /\ r.id < issued["correct"]

\* C3: at most one non-aborted request of each kind is in flight.
C3_AtMostOneLiveRequestPerKind ==
    \A kind \in {"complete", "correct"} : Cardinality(inFlight(kind)) <= 1

\* C3 witness: a correction request has been sent while an earlier one was
\* outstanding; the earlier one is in flight, aborted, beside the new one.
C3_Witness ==
    \E r1, r2 \in requests :
        /\ r1.kind = "correct" /\ r2.kind = "correct"
        /\ r1.aborted /\ ~r2.aborted /\ r1.id < r2.id

\* C4: every request that is sent carries the editor's text as it is when the
\* request is sent, and every scheduled fetch is scheduled for the current text.
C4_RequestCarriesCurrentText ==
    /\ [](\A t \in timers : t.kind \in {"complete", "correct"} => t.text = value)
    /\ [][\A r \in requests' : sends(r) => r.prompt = value]_vars

\* C4 witness: the text was changed while a fetch was scheduled or in flight,
\* and a request for the later text has been sent.
C4_Witness ==
    /\ value = <<"a", "b", "c", "d", "e", " ">>
    /\ \E r \in requests : ~r.aborted /\ r.prompt = value
    /\ \E r \in requests : r.aborted /\ r.prompt = <<"a", "b", "c", "d", "e">>

\* C5: whenever the text changes, every pending suggestion is cleared in the
\* same step (the correction in the corrector; the completion and the
\* correction in the twoStream editor).
C5_TextChangeClearsSuggestions ==
    [][value' # value =>
          /\ corrector => correctionText' = <<>>
          /\ twoStream => (ghostText' = <<>> /\ correctionText' = <<>>)]_vars

\* the step is a blur of the textarea, the focus moving to element target
blursTo(target) == activeElement = "textarea" /\ activeElement' = target

fires(t) == t \in timers /\ t \notin timers' /\ value' = value

\* C8: no completion request is ever sent for a text whose trimmed length is
\* below 3; when the debounce timer fires for such a text, the pending
\* completion is cleared and isLoading is reset, and nothing is sent.
C8_NoCompletionRequestForShortText ==
    [][/\ \A r \in requests' :
             (sends(r) /\ r.kind = "complete") => Len(trim(r.prompt)) >= 3
       /\ \A t \in timers :
             (fires(t) /\ t.kind = "complete" /\ Len(trim(t.text)) < 3)
             => (/\ ghostText' = <<>>
                 /\ isLoading' = FALSE
                 /\ issued' = issued)]_vars

\* C8 witness: the debounce timer has fired for a text of whitespace around
\* two characters (no fetch is scheduled any more and nothing was sent for it).
C8_Witness ==
    /\ twoStream \/ completer
    /\ value = <<" ", "a", "b", " ">>
    /\ debounceTimerRef = SpentTimer
    /\ { t \in timers : t.kind = "complete" } = {}
    /\ ~isLoading /\ ghostText = <<>>
    /\ \A r \in requests : r.prompt # value

\* the step is an accept gesture of the corrector (Tab, or the Accept button)
correctorAccepts == corrector_handleKeyDown("Tab") \/ acceptButton

\* C9: in the corrector, accepting a pending correction replaces the text by
\* the correction, clears the correction, stamps the cooldown with the current
\* time, sets hasProvidedSuggestionRef and cancels the pending correction
\* timer; accepting with no correction pending changes nothing.
C9_AcceptCorrection ==
    [][/\ (correctorAccepts /\ correctionText # <<>>) =>
             /\ value' = correctionText
             /\ correctionText' = <<>>
             /\ lastSuggestionTimestampRef' = now
             /\ hasProvidedSuggestionRef' = TRUE
             /\ timers \cap timers' = {}
       /\ (correctorAccepts /\ correctionText = <<>>) => UNCHANGED vars]_vars

\* C9 witness: a correction has been accepted at the current time (the text is
\* the correction, which no change event carries) and a fetch is scheduled
\* for the accepted text.
C9_Witness ==
    /\ corrector
    /\ value = <<"A", "b", "c", "d", "e">>
    /\ correctionText = <<>>
    /\ lastSuggestionTimestampRef = now
    /\ hasProvidedSuggestionRef
    /\ \E t \in timers : t.text = value /\ t.fireAt = now + POST_COMPLETION_DELAY_MS

\* the step is a gesture that accepts the completion: the second Tab of a
\* double Tab or the Accept button in the twoStream editor, Tab in the completer
completionAcceptGesture ==
    \/ isDoubleTab /\ twoStream_handleKeyDown("Tab")
    \/ twoStream_button("complete")
    \/ completer_handleKeyDown("Tab")

\* C10: accepting a pending completion sets the text to the current text
\* followed by the completion and clears the completion; the gesture with no
\* completion pending leaves the text and the suggestions unchanged.
C10_AcceptCompletion ==
    [][/\ (completionAcceptGesture /\ ghostText # <<>>) =>
             /\ value' = value \o ghostText
             /\ ghostText' = <<>>
       /\ (completionAcceptGesture /\ ghostText = <<>>) =>
             UNCHANGED << value, ghostText, correctionText >>]_vars

\* C10 witness: a completion has been accepted by a double Tab (the text
\* is a typed text followed by the completion; the Tab window is closed).
C10_Witness ==
    /\ twoStream
    /\ lastTabPressTimeRef = 0 /\ tabPressTimerRef = SpentTimer
    /\ value = <<"a", "b", "c", "d", "e", "d", "e">>
    /\ ghostText = <<>>

\* the step is the dismiss gesture: Escape in any of the three versions
dismissGesture ==
    \/ corrector_handleKeyDown("Escape")
    \/ twoStream_handleKeyDown("Escape")
    \/ completer_handleKeyDown("Escape")

\* C11: the dismiss gesture (Escape) leaves no suggestion pending and leaves the
\* text, the cooldown timestamp and hasProvidedSuggestionRef as they were.
C11_DismissClearsOnlySuggestions ==
    [][dismissGesture =>
          /\ ghostText' = <<>> /\ correctionText' = <<>>
          /\ UNCHANGED << value, lastSuggestionTimestampRef, hasProvidedSuggestionRef >>]_vars

\* C11 witness: in the corrector a correction was shown (the cooldown is
\* stamped) and has been dismissed: the text is still the typed text.
C11_Witness ==
    /\ corrector /\ activeElement = "textarea"
    /\ value = <<"a", "b", "c", "d", "e">>
    /\ correctionText = <<>>
    /\ hasProvidedSuggestionRef /\ lastSuggestionTimestampRef > 0
    /\ issued["correct"] = 1
    /\ requests = {} /\ timers = {}

\* C12: when a suggestion request fails (the fetch rejects, the status is not
\* a success or the body does not parse), whatever body came with it, the
\* suggestion of its kind becomes empty and the text and the cooldown refs are
\* unchanged.  Stated for the request r that leaves requests in the step:
\* either the step has these effects or it is not a failed settling of r.
C12_FailedRequestClearsSuggestion ==
    [][\A r \in requests \ requests' :
          /\ ( \/ /\ correctionText' = <<>>
                  /\ UNCHANGED << value, ghostText, cooldownRefs >>
               \/ \A c \in Answers(r.kind, r.prompt) : ~correctionSettles(r, FALSE, c) )
          /\ ( \/ /\ ghostText' = <<>>
                  /\ UNCHANGED << value, correctionText, cooldownRefs >>
               \/ \A c \in Answers(r.kind, r.prompt) : ~completionSettles(r, FALSE, c) )]_vars

\* C12 witness: in the corrector a second request was sent while the first
\* one's correction was pending, and it has settled without storing anything:
\* the correction is empty and the cooldown stamp is still the first one's.
C12_Witness ==
    /\ corrector
    /\ issued["correct"] = 2 /\ requests = {}
    /\ correctionText = <<>>
    /\ value = <<"a", "b", "c", "d", "e", " ">>
    /\ hasProvidedSuggestionRef
    /\ lastSuggestionTimestampRef = StartTime("corrector") + INITIAL_CORRECTION_DELAY_MS
    /\ now > lastSuggestionTimestampRef

----------------------------------------------------------------------------
(* The ghost text overlay of the corrector: ghostTextSuffix *)

\* longest text typed, and longest correction, when ghostTextSuffix is explored
MaxTypedLen == 2
MaxSuggestionLen == 3

Min(a, b) == IF a <= b THEN a ELSE b

\* the characters of the explored texts
OverlayChars == { "a", "A", " ", "Σ", "σ" }

IsLetter(c) == ~IsWhitespace(c)

\* String.prototype.toLowerCase of a one-character string
toLowerCaseChar(c) ==
    IF c = "A" THEN "a" ELSE IF c = "Σ" THEN "σ" ELSE c

\* String.prototype.toLowerCase of a string: a capital sigma that ends a word
\* becomes the final sigma
toLowerCase(str) ==
    [ i \in 1..Len(str) |->
        IF /\ str[i] = "Σ"
           /\ i > 1 /\ IsLetter(str[i - 1])
           /\ (i = Len(str) \/ ~IsLetter(str[i + 1]))
        THEN "ς"
        ELSE toLowerCaseChar(str[i]) ]

\* String.prototype.startsWith
startsWith(str, prefix) ==
    Len(prefix) <= Len(str) /\ SubSeq(str, 1, Len(prefix)) = prefix

\* String.prototype.slice(start), start counted from 0
slice(str, start) == SubSeq(str, start + 1, Len(str))

\* faulty variant of commonPrefixLength: the characters are compared as they are
RECURSIVE commonPrefixLength_caseSensitive(_, _, _)
commonPrefixLength_caseSensitive(userInput, suggestion, n) ==
    IF n < Min(Len(userInput), Len(suggestion)) /\ userInput[n + 1] = suggestion[n + 1]
    THEN commonPrefixLength_caseSensitive(userInput, suggestion, n + 1)
    ELSE n

\* the while loop of ghostTextSuffix (lines 273-278), entered with the count n
RECURSIVE commonPrefixLength(_, _, _)
commonPrefixLength(userInput, suggestion, n) ==
    IF /\ n < Min(Len(userInput), Len(suggestion))
       /\ toLowerCaseChar(userInput[n + 1]) = toLowerCaseChar(suggestion[n + 1])
    THEN commonPrefixLength(userInput, suggestion, n + 1)
    ELSE n

\* ghostTextSuffix (lines 260-289)
ghostTextSuffix(foc, userInput, suggestion) ==
    LET prefixLength == commonPrefixLength(userInput, suggestion, 0)
    IN  IF ~foc \/ suggestion = <<>> THEN <<>>
        ELSE IF userInput = <<>> THEN suggestion
        ELSE IF /\ prefixLength = Len(userInput)
                /\ startsWith(toLowerCase(suggestion), toLowerCase(userInput))
        THEN slice(suggestion, Len(userInput))
        ELSE IF prefixLength = 0 THEN suggestion
        ELSE slice(suggestion, prefixLength)

\* the corrector rendered with any focus state and any pending correction
overlayInit ==
    /\ variant = "corrector"
    /\ mounted = TRUE
    /\ now = StartTime(variant)
    /\ value = <<>>
    /\ ghostText = <<>>
    /\ correctionText \in UNION { [1..n -> OverlayChars] : n \in 0..MaxSuggestionLen }
    /\ isLoading = FALSE
    /\ isCorrecting = FALSE
    /\ isFocused \in BOOLEAN
    /\ activeElement = IF isFocused THEN "textarea" ELSE "body"
    /\ timers = {}
    /\ requests = {}
    /\ issued = [k \in {"complete", "correct"} |-> 0]
    /\ abortControllerRef = 0
    /\ correctionAbortControllerRef = 0
    /\ debounceTimerRef = NoTimer
    /\ pendingSuggestionTimerRef = NoTimer
    /\ correctionCleanupTimer = NoTimer
    /\ lastSuggestionTimestampRef = 0
    /\ hasProvidedSuggestionRef = FALSE
    /\ tabPressTimerRef = NoTimer
    /\ lastTabPressTimeRef = 0
    /\ studio = mountedStudio("gated")

\* a character is typed and the overlay is rendered for the new text (the
\* dependencies of the useMemo, line 289)
overlayType(c) ==
    /\ Len(value) < MaxTypedLen
    /\ value' = Append(value, c)
    /\ UNCHANGED << variant, mounted, studio, activeElement, now, ghostText, correctionText, isLoading,
                    isCorrecting, isFocused, timers, requests, issued, completionRefs,
                    correctionAbortControllerRef, pendingSuggestionTimerRef,
                    correctionCleanupTimer, cooldownRefs, tabRefs >>

overlayNext == \E c \in OverlayChars : overlayType(c)

OverlaySpec == overlayInit /\ [][overlayNext]_vars

\* the length of the longest common prefix of two texts, case ignored
longestCommonPrefix(text, suggestion) ==
    CHOOSE n \in 0..Min(Len(text), Len(suggestion)) :
        /\ \A i \in 1..n : toLowerCaseChar(text[i]) = toLowerCaseChar(suggestion[i])
        /\ \/ n = Min(Len(text), Len(suggestion))
           \/ toLowerCaseChar(text[n + 1]) # toLowerCaseChar(suggestion[n + 1])

\* the three-way rule for a text and a suggestion
threeWayRule(text, suggestion) ==
    LET L == longestCommonPrefix(text, suggestion)
    IN  IF L = Len(text) THEN SubSeq(suggestion, Len(text) + 1, Len(suggestion))
        ELSE IF L = 0 THEN suggestion
        ELSE SubSeq(suggestion, L + 1, Len(suggestion))

\* C13: for every text and correction the ghost suffix is what the three-way
\* rule gives (with L the length of the longest common prefix, case ignored:
\* the correction from len(text) on when L = len(text), the whole correction
\* when L = 0, the correction from L on otherwise), and it is empty when the
\* editor is unfocused or no correction is pending; 'a cat on' with 'a cat on
\* the roof' gives ' the roof', 'a dog' with 'a cat on a roof' gives 'cat on a
\* roof'.
C13_GhostSuffixRule ==
    /\ ghostTextSuffix(isFocused, value, correctionText) =
          IF ~isFocused \/ correctionText = <<>> THEN <<>>
          ELSE threeWayRule(value, correctionText)
    /\ ghostTextSuffix(TRUE, <<"a", " ", "c", "a", "t", " ", "o", "n">>,
                       <<"a", " ", "c", "a", "t", " ", "o", "n", " ", "t", "h", "e", " ", "r", "o", "o", "f">>)
          = <<" ", "t", "h", "e", " ", "r", "o", "o", "f">>
    /\ ghostTextSuffix(TRUE, <<"a", " ", "d", "o", "g">>,
                       <<"a", " ", "c", "a", "t", " ", "o", "n", " ", "a", " ", "r", "o", "o", "f">>)
          = <<"c", "a", "t", " ", "o", "n", " ", "a", " ", "r", "o", "o", "f">>

\* C13 witness: the text is a prefix of the correction up to case, and ends in
\* a capital sigma that the correction continues: the suffix is the remainder.
C13_Witness ==
    /\ isFocused
    /\ value = <<"A", "Σ">>
    /\ correctionText = <<"a", "σ", "a">>
    /\ ghostTextSuffix(isFocused, value, correctionText) = <<"a">>

\* the base delay in force (line 137)
baseDelayInForce ==
    IF hasProvidedSuggestionRef THEN POST_COMPLETION_DELAY_MS ELSE INITIAL_CORRECTION_DELAY_MS

\* C14: in the corrector no correction request is sent earlier than the base
\* delay in force (3000 ms before any correction was produced, 8000 ms after)
\* after the cooldown timestamp.
C14_CooldownFloor ==
    [][\A r \in requests' :
          (corrector /\ sends(r) /\ r.kind = "correct") =>
              now >= lastSuggestionTimestampRef + baseDelayInForce]_vars

----------------------------------------------------------------------------
(***************************************************************************)
(* The capability matrix (src/lib/modelConfig.ts) and the generation form  *)
(* (ImageStudio, src/components/ImagePreview.tsx lines 295-654) with the   *)
(* selectors it renders.                                                   *)
(***************************************************************************)

Models == {"google", "grok", "huggingface", "qwen"}
Layouts == {"landscape", "mobile", "square", "reference"}

MODEL_CAPABILITIES ==
    [ google      |-> [ supportsReferenceImages |-> TRUE,
                        supportsLayoutSelection |-> TRUE,
                        supportedLayouts        |-> << "landscape", "mobile", "square" >>,
                        requiresReferenceImage  |-> FALSE ],
      grok        |-> [ supportsReferenceImages |-> FALSE,
                        supportsLayoutSelection |-> TRUE,
                        supportedLayouts        |-> << "landscape", "mobile", "square" >>,
                        requiresReferenceImage  |-> FALSE ],
      huggingface |-> [ supportsReferenceImages |-> TRUE,
                        supportsLayoutSelection |-> TRUE,
                        supportedLayouts        |-> << "landscape", "mobile", "square",
                                                       "reference" >>,
                        requiresReferenceImage  |-> FALSE ],
      qwen        |-> [ supportsReferenceImages |-> TRUE,
                        supportsLayoutSelection |-> FALSE,
                        supportedLayouts        |-> << "reference" >>,
                        requiresReferenceImage  |-> TRUE ] ]

LAYOUT_CONFIGS ==
    << [ value |-> "landscape", width |-> 1920, height |-> 1080 ],
       [ value |-> "mobile",    width |-> 1080, height |-> 1920 ],
       [ value |-> "square",    width |-> 1024, height |-> 1024 ],
       [ value |-> "reference", width |-> 0,    height |-> 0 ] >>

\* Array.prototype.includes
includes(array, x) == \E i \in DOMAIN array : array[i] = x

\* faulty variant of layoutOffered: the reference layout is offered without an image
layoutOffered_ignoringImage(capabilities, layout, hasReferenceImage) ==
    includes(capabilities.supportedLayouts, layout.value)

\* the filter callback of getLayoutsForModel (lines 77-85)
layoutOffered(capabilities, layout, hasReferenceImage) ==
    /\ includes(capabilities.supportedLayouts, layout.value)
    /\ ~(layout.value = "reference" /\ ~hasReferenceImage)

getLayoutsForModel(model, hasReferenceImage) ==
    SelectSeq(LAYOUT_CONFIGS,
              LAMBDA layout : layoutOffered(MODEL_CAPABILITIES[model], layout, hasReferenceImage))

\* the values of a list of layout configurations
layoutValues(configs) == [i \in DOMAIN configs |-> configs[i].value]

----------------------------------------------------------------------------
(* Bounds of the form model *)

\* file loads (FileReader read and Image decoding) in flight at once
MaxLoads == 1

----------------------------------------------------------------------------
(* The messages ImageStudio stores in error; "null" is null *)

ERR_INVALID_TYPE == "Invalid file type. Please upload a JPEG, PNG, or WebP image."
ERR_FILE_TOO_LARGE == "File size too large. Maximum size is 10MB."
ERR_READ_FAILED == "Failed to read file. Please try again."
ERR_DIMENSIONS_FAILED == "Failed to load image dimensions."
ERR_GOOGLE_REFERENCE == "Reference layout is not supported with Google. Switched to square layout."
ERR_GROK_IMAGE ==
    "Reference images are not supported with Grok. Your image will be preserved when you switch to another model."
ERR_UPLOAD_FIRST == "Please upload a reference image first to use the reference dimension option."
ERR_ENTER_PROMPT == "Please enter a prompt"
ERR_GENERATE_FAILED == "Failed to generate image"

----------------------------------------------------------------------------
(* Files *)

MAX_FILE_SIZE == 10 * 1024 * 1024
ALLOWED_FILE_TYPES == {"image/jpeg", "image/jpg", "image/png", "image/webp"}

\* the pictures the user has at hand, by the data URL readAsDataURL gives
Pictures == {1}

\* the files the user picks
FileInputs ==
    [ data : Pictures,
      type : {"image/png", "application/pdf"},
      size : {MAX_FILE_SIZE, MAX_FILE_SIZE + 1} ]

validateFile(file) ==
    IF file.type \notin ALLOWED_FILE_TYPES THEN ERR_INVALID_TYPE
    ELSE IF file.size > MAX_FILE_SIZE THEN ERR_FILE_TOO_LARGE
    ELSE "null"

\* img.width and img.height of the decoded picture
imageSize(data) == [width |-> 640 * data, height |-> 480]

----------------------------------------------------------------------------
(* ImageStudio's handlers.  A step is one event: the handler and the render *)
(* that follows.                                                            *)

editorVars == << variant, mounted, now, value, ghostText, correctionText, isLoading, isCorrecting,
                 isFocused, activeElement, timers, requests, issued, abortControllerRef,
                 correctionAbortControllerRef, debounceTimerRef, pendingSuggestionTimerRef,
                 correctionCleanupTimer, lastSuggestionTimestampRef,
                 hasProvidedSuggestionRef, tabPressTimerRef, lastTabPressTimeRef >>

modelsSupportingReferenceImages == {"google", "huggingface", "qwen"}

\* faulty variant of warnsImageIgnored: no warning about the ignored image
warnsImageIgnored_never(model, uploadedImage, previousModelSupportsImages) == FALSE

\* the condition of the Grok branch of handleModelSelect (line 404)
warnsImageIgnored(model, uploadedImage, previousModelSupportsImages) ==
    model = "grok" /\ uploadedImage # NoImage /\ previousModelSupportsImages

handleModelSelect(model) ==
    LET previousModel == studio.selectedModel
        previousModelSupportsImages == previousModel \in modelsSupportingReferenceImages
        newModelSupportsImages == model \in modelsSupportingReferenceImages
    IN  /\ studio' =
              IF model = "google" /\ studio.selectedLayout = "reference"
              THEN [studio EXCEPT !.selectedModel = model,
                                  !.selectedLayout = "square",
                                  !.error = ERR_GOOGLE_REFERENCE]
              ELSE IF warnsImageIgnored(model, studio.uploadedImage,
                                        previousModelSupportsImages)
              THEN [studio EXCEPT !.selectedModel = model, !.error = ERR_GROK_IMAGE]
              ELSE IF previousModel = "grok" /\ newModelSupportsImages
              THEN [studio EXCEPT !.selectedModel = model, !.error = "null"]
              ELSE IF previousModelSupportsImages /\ newModelSupportsImages
              THEN [studio EXCEPT !.selectedModel = model, !.error = "null"]
              ELSE [studio EXCEPT !.selectedModel = model]
        /\ UNCHANGED editorVars

\* ModelSelector's hasReferenceImage prop as ImageStudio renders it: the call
\* site (lines 467-470) passes selectedModel and onSelect only, so the prop
\* takes its default (ModelSelector.tsx line 69)
ModelSelector_hasReferenceImage == FALSE

\* ModelSelector.tsx line 70; part_005 has no such flag
isQwenDisabled == studio.modelSelector = "gated" /\ ~ModelSelector_hasReferenceImage

\* a click on a button of the ModelSelector (ModelSelector.tsx lines 75-133,
\* part_005 lines 14-66); the disabled Qwen button does nothing
modelButton(model) ==
    IF model = "qwen" /\ isQwenDisabled
    THEN UNCHANGED vars
    ELSE handleModelSelect(model)

\* the drop zone and file input are rendered (lines 501-556)
uploadAreaRendered == studio.selectedModel # "grok" /\ studio.uploadedImage = NoImage

\* the closures handleFileSelect creates see the selectedModel of its render
handleFileSelect(file) ==
    LET validationError == validateFile(file)
        load == [data |-> file.data, stage |-> "reading",
                 selectedModel |-> studio.selectedModel]
    IN  /\ uploadAreaRendered
        /\ IF validationError # "null"
           THEN studio' = [studio EXCEPT !.error = validationError]
           ELSE /\ Cardinality(studio.loads) < MaxLoads
                /\ load \notin studio.loads
                /\ studio' = [studio EXCEPT !.error = "null", !.loads = @ \cup {load}]
        /\ UNCHANGED editorVars

\* reader.onload (lines 326-344): the data URL is stored and decoding starts
readerOnload(load) ==
    /\ load \in studio.loads
    /\ load.stage = "reading"
    /\ studio' = [studio EXCEPT !.uploadedImage = load.data,
                                !.loads = (@ \ {load}) \cup {[load EXCEPT !.stage = "decoding"]}]
    /\ UNCHANGED editorVars

\* reader.onerror (lines 345-347)
readerOnerror(load) ==
    /\ load \in studio.loads
    /\ load.stage = "reading"
    /\ studio' = [studio EXCEPT !.error = ERR_READ_FAILED, !.loads = @ \ {load}]
    /\ UNCHANGED editorVars

\* img.onload (lines 332-338)
imgOnload(load) ==
    /\ load \in studio.loads
    /\ load.stage = "decoding"
    /\ studio' = [studio EXCEPT !.referenceImageDimensions = imageSize(load.data),
                                !.selectedLayout = IF load.selectedModel # "google"
                                                   THEN "reference" ELSE @,
                                !.loads = @ \ {load}]
    /\ UNCHANGED editorVars

\* img.onerror (lines 339-341)
imgOnerror(load) ==
    /\ load \in studio.loads
    /\ load.stage = "decoding"
    /\ studio' = [studio EXCEPT !.error = ERR_DIMENSIONS_FAILED, !.loads = @ \ {load}]
    /\ UNCHANGED editorVars

\* the Remove image button, rendered with the preview (lines 557-586)
handleClearImage ==
    /\ studio.selectedModel # "grok"
    /\ studio.uploadedImage # NoImage
    /\ studio' = [studio EXCEPT !.uploadedImage = NoImage,
                                !.referenceImageDimensions = NoDimensions,
                                !.error = "null",
                                !.selectedLayout = IF @ = "reference" THEN "square" ELSE @]
    /\ UNCHANGED editorVars

\* faulty variant of selectableLayouts: the buttons are rendered for every provider
selectableLayouts_unconditional(model, hasReferenceImage) ==
    layoutValues(getLayoutsForModel(model, hasReferenceImage))

\* the layouts LayoutSelector renders a button for (part_003 lines 20-39 and 55-58)
selectableLayouts(model, hasReferenceImage) ==
    IF ~MODEL_CAPABILITIES[model].supportsLayoutSelection
    THEN << >>
    ELSE layoutValues(getLayoutsForModel(model, hasReferenceImage))

\* a click on a button of the LayoutSelector: the onSelect ImageStudio passes
\* (lines 601-608)
layoutButton(layout) ==
    /\ includes(selectableLayouts(studio.selectedModel, studio.uploadedImage # NoImage), layout)
    /\ studio' = IF layout = "reference" /\ studio.uploadedImage = NoImage
                 THEN [studio EXCEPT !.error = ERR_UPLOAD_FIRST]
                 ELSE [studio EXCEPT !.selectedLayout = layout]
    /\ UNCHANGED editorVars

\* the prompts the user leaves in the editor (onChange={setPrompt}, line 485)
PromptTexts == { <<>>, <<" ">>, <<"a">> }

\* the editor's onChange
setPrompt(text) ==
    /\ text # studio.prompt
    /\ studio' = [studio EXCEPT !.prompt = text]
    /\ UNCHANGED editorVars

\* faulty variant of promptIsBlank: the prompt is not trimmed
promptIsBlank_untrimmed(prompt) == prompt = <<>>

\* !prompt.trim() (line 419)
promptIsBlank(prompt) == trim(prompt) = <<>>

\* faulty variant of imageDataToSend: the image is sent to every provider
imageDataToSend_always(model, uploadedImage) == uploadedImage

\* lines 432-434; NoImage is undefined
imageDataToSend(model, uploadedImage) ==
    IF model = "grok" THEN NoImage ELSE uploadedImage

\* lines 437-439: the reference layout travels with the dimensions, if known
layoutToUse(layout, dimensions) ==
    IF layout = "reference" /\ dimensions # NoDimensions
    THEN [type |-> "reference", width |-> dimensions.width, height |-> dimensions.height]
    ELSE [type |-> layout, width |-> NoDimensions.width, height |-> NoDimensions.height]

\* the call generateImage(prompt, layoutToUse, selectedModel, imageDataToSend),
\* as it is remembered while outstanding: the provider and the image data it
\* carries and its prompt.  Its layout argument, layoutToUse(selectedLayout,
\* referenceImageDimensions), is not kept: the form never reads a call's
\* arguments back and the service's answer is any of resolve and reject.
generateImageCall ==
    [ prompt    |-> studio.prompt,
      model     |-> studio.selectedModel,
      imageData |-> imageDataToSend(studio.selectedModel, studio.uploadedImage) ]

\* a click on Generate Image (disabled while isLoading, line 615): handleGenerate
\* up to its await (lines 418-441)
handleGenerate ==
    /\ ~studio.isLoading
    /\ studio' = IF promptIsBlank(studio.prompt)
                 THEN [studio EXCEPT !.error = ERR_ENTER_PROMPT]
                 ELSE [studio EXCEPT !.isLoading = TRUE,
                                     !.error = "null",
                                     !.generatedImage = "null",
                                     !.generations = @ \cup {generateImageCall}]
    /\ UNCHANGED editorVars

\* what generateImage resolves with (data.imageUrl) and the messages of the
\* Errors it throws
ImageUrls == { "data:image/png;base64" }
ServiceErrors == { ERR_GENERATE_FAILED, "HTTP 500: Internal Server Error" }

\* generateImage resolves: lines 441-448 and the finally
generateResolves(call, imageUrl) ==
    /\ call \in studio.generations
    /\ studio' = [studio EXCEPT !.generatedImage = imageUrl,
                                !.isLoading = FALSE,
                                !.generations = @ \ {call}]
    /\ UNCHANGED editorVars

\* faulty variant of errorShown: the failure is swallowed
errorShown_none(message) == "null"

\* err instanceof Error ? err.message : 'Failed to generate image' (line 451);
\* generateImage throws Errors only
errorShown(message) == message

\* generateImage rejects: the catch (lines 449-451) and the finally
generateRejects(call, message) ==
    /\ call \in studio.generations
    /\ studio' = [studio EXCEPT !.error = errorShown(message),
                                !.isLoading = FALSE,
                                !.generations = @ \ {call}]
    /\ UNCHANGED editorVars

\* the form mounted around an untouched editor
formInit ==
    /\ studio \in {mountedStudio("gated"), mountedStudio("open")}
    /\ variant = "corrector"
    /\ mounted = TRUE
    /\ now = StartTime(variant)
    /\ value = <<>>
    /\ ghostText = <<>>
    /\ correctionText = <<>>
    /\ isLoading = FALSE
    /\ isCorrecting = FALSE
    /\ isFocused = FALSE
    /\ activeElement = "body"
    /\ timers = {}
    /\ requests = {}
    /\ issued = [k \in {"complete", "correct"} |-> 0]
    /\ abortControllerRef = 0
    /\ correctionAbortControllerRef = 0
    /\ debounceTimerRef = NoTimer
    /\ pendingSuggestionTimerRef = NoTimer
    /\ correctionCleanupTimer = NoTimer
    /\ lastSuggestionTimestampRef = 0
    /\ hasProvidedSuggestionRef = FALSE
    /\ tabPressTimerRef = NoTimer
    /\ lastTabPressTimeRef = 0

formNext ==
    \/ \E model \in Models : modelButton(model)
    \/ \E file \in FileInputs : handleFileSelect(file)
    \/ \E load \in studio.loads : readerOnload(load)
    \/ \E load \in studio.loads : readerOnerror(load)
    \/ \E load \in studio.loads : imgOnload(load)
    \/ \E load \in studio.loads : imgOnerror(load)
    \/ handleClearImage
    \/ \E layout \in Layouts : layoutButton(layout)
    \/ \E text \in PromptTexts : setPrompt(text)
    \/ handleGenerate
    \/ \E call \in studio.generations : \E imageUrl \in ImageUrls :
           generateResolves(call, imageUrl)
    \/ \E call \in studio.generations : \E message \in ServiceErrors :
           generateRejects(call, message)

FormSpec == formInit /\ [][formNext]_vars

----------------------------------------------------------------------------
(* Claims about the capability matrix and the generation form *)

\* the layouts in the order the claims fix
FixedLayoutOrder == << "landscape", "mobile", "square", "reference" >>

\* the provider's supported layouts, as a set
supportedLayoutSet(model) ==
    { MODEL_CAPABILITIES[model].supportedLayouts[i] :
        i \in DOMAIN MODEL_CAPABILITIES[model].supportedLayouts }

\* the provider and the presence of an image the form is rendered with
hasReferenceImage == studio.uploadedImage # NoImage

\* C15: getLayoutsForModel(provider, hasReferenceImage) returns, in the order
\* landscape, mobile, square, reference, exactly the provider's supported
\* layouts, without the reference layout when no reference image is present;
\* for the provider that requires a reference image (qwen) that is the empty
\* list without an image and the list holding only the reference layout with one.
C15_LayoutsForModel ==
    LET result == layoutValues(getLayoutsForModel(studio.selectedModel, hasReferenceImage))
    IN  /\ result = SelectSeq(FixedLayoutOrder,
                              LAMBDA l : /\ l \in supportedLayoutSet(studio.selectedModel)
                                         /\ (l = "reference" => hasReferenceImage))
        /\ \A i \in DOMAIN result :
               \E j \in DOMAIN LAYOUT_CONFIGS :
                   getLayoutsForModel(studio.selectedModel, hasReferenceImage)[i]
                       = LAYOUT_CONFIGS[j]
        /\ MODEL_CAPABILITIES[studio.selectedModel].requiresReferenceImage =>
               result = IF hasReferenceImage THEN << "reference" >> ELSE << >>

\* the form shows the provider that requires an image, with an image attached
C15_Witness ==
    /\ studio.selectedModel = "qwen"
    /\ hasReferenceImage
    /\ layoutValues(getLayoutsForModel(studio.selectedModel, hasReferenceImage))
           = << "reference" >>

getLayoutConfig(layout) ==
    IF \E i \in DOMAIN LAYOUT_CONFIGS : LAYOUT_CONFIGS[i].value = layout
    THEN LAYOUT_CONFIGS[CHOOSE i \in DOMAIN LAYOUT_CONFIGS :
                            /\ LAYOUT_CONFIGS[i].value = layout
                            /\ \A j \in 1..(i - 1) : LAYOUT_CONFIGS[j].value # layout]
    ELSE LAYOUT_CONFIGS[3]

\* referenceDimensions is NoDimensions when the argument is left out
getLayoutDimensions(layout, referenceDimensions) ==
    IF layout = "reference" /\ referenceDimensions # NoDimensions
    THEN referenceDimensions
    ELSE [width  |-> getLayoutConfig(layout).width,
          height |-> getLayoutConfig(layout).height]

\* the fixed pixel size of a fixed layout
fixedSize(layout) ==
    CASE layout = "landscape" -> [width |-> 1920, height |-> 1080]
      [] layout = "mobile"    -> [width |-> 1080, height |-> 1920]
      [] layout = "square"    -> [width |-> 1024, height |-> 1024]

\* C17: getLayoutDimensions returns the reference image's dimensions for the
\* reference layout when they are supplied, a fallback square (equal, non-zero
\* width and height) for the reference layout when they are not, and the
\* layout's fixed pixel size for every fixed layout.
C17_LayoutDimensions ==
    LET result == getLayoutDimensions(studio.selectedLayout, studio.referenceImageDimensions)
    IN  IF studio.selectedLayout = "reference"
        THEN IF studio.referenceImageDimensions # NoDimensions
             THEN result = studio.referenceImageDimensions
             ELSE result.width = result.height /\ result.width > 0
        ELSE result = fixedSize(studio.selectedLayout)

\* the provider's supported layouts include the layout
supportsLayout(model, layout) == includes(MODEL_CAPABILITIES[model].supportedLayouts, layout)

\* a click on the ModelSelector that reaches handleModelSelect(model)
selectsModel(model) == modelButton(model) /\ ~(model = "qwen" /\ isQwenDisabled)

\* C18: selecting a provider whose supported layouts do not include the
\* reference layout while the reference layout is selected changes the
\* selected layout to square and sets a warning message, so that after the
\* switch the selected layout is one the selected provider supports.
C18_ProviderSwitchLeavesSupportedLayout ==
    [][\A model \in Models :
          ( /\ selectsModel(model)
            /\ ~supportsLayout(model, "reference")
            /\ studio.selectedLayout = "reference" )
          => /\ studio'.selectedLayout = "square"
             /\ studio'.error # "null"
             /\ supportsLayout(studio'.selectedModel, studio'.selectedLayout)]_vars

C20_QwenSelectableOnlyWithImage ==
    /\ [][(modelButton("qwen") /\ ~hasReferenceImage)
              => studio'.selectedModel = studio.selectedModel]_vars
    /\ [](hasReferenceImage
              => ENABLED (modelButton("qwen") /\ studio'.selectedModel = "qwen"))

\* C21: submitting a generation (with a prompt) while the selected provider
\* requires a reference image and none is attached issues no generation
\* request and shows an error message.
C21_MissingRequiredImageBlocksGenerate ==
    [][( /\ handleGenerate
         /\ ~promptIsBlank(studio.prompt)
         /\ MODEL_CAPABILITIES[studio.selectedModel].requiresReferenceImage
         /\ ~hasReferenceImage )
       => /\ studio'.generations = studio.generations
          /\ studio'.error # "null"]_vars

\* C22: submitting a generation with an empty or whitespace-only prompt issues
\* no generation request, sets the error message 'Please enter a prompt', and
\* leaves the loading flag false and the generated image unchanged.
C22_BlankPromptIsRejected ==
    [][(handleGenerate /\ trim(studio.prompt) = <<>>)
       => /\ studio'.generations = studio.generations
          /\ studio'.error = "Please enter a prompt"
          /\ studio'.isLoading = FALSE
          /\ studio'.generatedImage = studio.generatedImage]_vars

\* a whitespace-only prompt was submitted while an earlier generated image is
\* shown: the message is set, the image is still there, nothing is in flight
C22_Witness ==
    /\ studio.prompt = <<" ">>
    /\ studio.error = ERR_ENTER_PROMPT
    /\ studio.generatedImage # "null"
    /\ ~studio.isLoading
    /\ studio.generations = {}

\* the call of generateImage settles, either way
generateSettles ==
    \E call \in studio.generations :
        \/ \E imageUrl \in ImageUrls : generateResolves(call, imageUrl)
        \/ \E message \in ServiceErrors : generateRejects(call, message)

\* the form with a generation service that answers every call
FairFormSpec == formInit /\ [][formNext]_vars /\ WF_vars(generateSettles)

\* C23: when the generation service fails the form shows the failure's
\* message, the loading flag returns to false and no generated image is shown;
\* a generation request is issued only by a submission; the loading flag is
\* true only while a call is outstanding, and after every submission it
\* eventually returns to false, the service answering every call.
C23_ServiceFailure ==
    /\ [][\A call \in studio.generations \ studio'.generations :
              \/ /\ studio'.error \in ServiceErrors
                 /\ ~studio'.isLoading
                 /\ studio'.generatedImage = "null"
              \/ \A message \in ServiceErrors : ~generateRejects(call, message)]_vars
    /\ [][\A message \in ServiceErrors : \A call \in studio.generations :
              generateRejects(call, message) => studio'.error = message]_vars
    /\ [][(studio'.generations \ studio.generations # {}) => handleGenerate]_vars
    /\ [](studio.isLoading <=> studio.generations # {})
    /\ (studio.isLoading ~> ~studio.isLoading)

\* the service has failed with its own message after a submission: the message
\* is shown, nothing is loading or in flight and no image is shown
C23_Witness ==
    /\ studio.error = "HTTP 500: Internal Server Error"
    /\ studio.prompt = <<"a">>
    /\ ~studio.isLoading
    /\ studio.generatedImage = "null"
    /\ studio.generations = {}

C29_ReferenceLayoutOnlyWithImage ==
    studio.selectedLayout = "reference" => hasReferenceImage

----------------------------------------------------------------------------
(* The corrector's delay rule *)

\* the base delay the claim names, from the flag alone
claimedBaseDelay(hasProvided) ==
    IF hasProvided THEN POST_COMPLETION_DELAY_MS ELSE INITIAL_CORRECTION_DELAY_MS

\* C24: in the corrector, every correction fetch scheduled by a step that
\* changes the text is due after max(baseDelay, remaining cooldown), where
\* baseDelay is 3000 ms while hasProvidedSuggestionRef is false and 8000 ms
\* once it is true and the remaining cooldown is counted from the last
\* cooldown stamp; the flag is set by every step that stores a correction,
\* it is set whenever a correction is pending, and once true it stays true.
C24_CorrectionDelay ==
    /\ [][corrector =>
            /\ hasProvidedSuggestionRef => hasProvidedSuggestionRef'
            /\ \A r \in requests \ requests' : correctionText' # <<>> => hasProvidedSuggestionRef'
            /\ value' # value =>
                 \A t \in timers' \ timers :
                    t.kind = "correct" =>
                       /\ t.text = value'
                       /\ t.fireAt - now =
                             Max(claimedBaseDelay(hasProvidedSuggestionRef'),
                                 Max(lastSuggestionTimestampRef'
                                        + claimedBaseDelay(hasProvidedSuggestionRef') - now, 0))]_vars
    /\ [](corrector /\ correctionText # <<>> => hasProvidedSuggestionRef)

\* C24 witness: the flag is set and a fetch scheduled with the long delay is
\* pending for the current text (it is due later than the initial delay allows).
C24_Witness ==
    /\ corrector
    /\ hasProvidedSuggestionRef
    /\ \E t \in timers :
          /\ t.kind = "correct" /\ t.text = value
          /\ t.fireAt - now > INITIAL_CORRECTION_DELAY_MS

\* C24 witness of the short delay: before any correction was produced a fetch
\* is pending that is due within the initial delay.
C24_WitnessInitial ==
    /\ corrector
    /\ ~hasProvidedSuggestionRef
    /\ \E t \in timers :
          /\ t.kind = "correct" /\ t.text = value
          /\ t.fireAt - now = INITIAL_CORRECTION_DELAY_MS

----------------------------------------------------------------------------
(* The double-Tab window of the two-stream editor *)

\* the last Tab press was handled as a single activation less than
\* DOUBLE_TAB_WINDOW_MS ago and no Tab was pressed since: the timer that
\* press set is still the one in tabPressTimerRef (a later single press
\* replaces it, a double press spends it) and it is not yet due
singleActivationInWindow ==
    /\ tabPressTimerRef \in timers
    /\ tabPressTimerRef.kind = "tab"
    /\ now < tabPressTimerRef.fireAt

\* the step handles a Tab press as a single activation (lines 269-283)
singleActivation == twoStream_handleKeyDown("Tab") /\ lastTabPressTimeRef' = now

\* C25, first half: a Tab press handled as a single activation accepts the
\* pending correction if one is present and leaves the text and the pending
\* completion alone otherwise.
C25_SingleTabAcceptsCorrectionOnly ==
    [][singleActivation =>
          IF correctionText # <<>>
          THEN value' = correctionText /\ correctionText' = <<>>
          ELSE UNCHANGED << value, ghostText, correctionText >>]_vars

\* C25: in the two-stream editor a Tab press handled as a single activation
\* accepts the pending correction if one is present and never the completion,
\* and a Tab press made less than 300 ms after a single activation is handled
\* as a double activation: it closes the window and accepts the pending
\* completion if one is present, whichever window timers have fired before.
C25_DoubleTabWithinWindow ==
    /\ C25_SingleTabAcceptsCorrectionOnly
    /\ [][(twoStream /\ singleActivationInWindow /\ twoStream_handleKeyDown("Tab")) =>
             /\ lastTabPressTimeRef' = 0
             /\ tabPressTimerRef' \notin timers'
             /\ ghostText # <<>> /\ Len(value) + Len(ghostText) <= MaxTextLen =>
                   value' = value \o ghostText /\ ghostText' = <<>>]_vars

----------------------------------------------------------------------------
(* Independent cancellation of the two kinds of request *)

otherKind(kind) == IF kind = "complete" THEN "correct" ELSE "complete"

requestsOfKind(reqs, kind) == { q \in reqs : q.kind = kind }

\* C26: a step that sends a request of one kind leaves every request of the
\* other kind exactly as it was (in flight and not aborted, or aborted), keeps
\* the other kind's pending suggestion, busy flag and controller, and removes
\* no request of its own kind: each either stays as it was or is aborted.
C26_IndependentCancellation ==
    [][\A r \in requests' \ requests :
          r.id > issued[r.kind] =>
             /\ requestsOfKind(requests', otherKind(r.kind))
                   = requestsOfKind(requests, otherKind(r.kind))
             /\ r.kind = "complete" =>
                   UNCHANGED << correctionText, isCorrecting, correctionAbortControllerRef >>
             /\ r.kind = "correct" =>
                   UNCHANGED << ghostText, isLoading, abortControllerRef >>
             /\ \A q \in requestsOfKind(requests, r.kind) :
                   q \in requests' \/ [q EXCEPT !.aborted = TRUE] \in requests']_vars

\* C26 witness: in the two-stream editor a request of each kind is in flight
\* and not aborted, so the one sent last left the other alone.
C26_Witness ==
    /\ twoStream
    /\ inFlight("complete") # {}
    /\ inFlight("correct") # {}

\* C26 witness of the pending suggestion: a completion request is in flight
\* while a correction is pending.
C26_WitnessPendingCorrection ==
    /\ twoStream
    /\ inFlight("complete") # {}
    /\ correctionText # <<>>

----------------------------------------------------------------------------
(* Unmounting the editor.  React runs the cleanup of every effect; afterwards the
   component's state cells ignore updates, while refs, timers and fetches live on. *)

\* the cleanups the corrector's effects returned (lines 153-160; the effect of
\* lines 240-249 returns none): the request in flight is not aborted
corrector_unmount ==
    LET c == schedulingCleanup(timers, pendingSuggestionTimerRef, correctionCleanupTimer)
    IN  /\ timers' = c.tms
        /\ pendingSuggestionTimerRef' = c.ref
        /\ UNCHANGED requests

\* the cleanups of the two-stream editor's effects (part_002 lines 191-201 and
\* 212): the double-Tab window timer (lines 280-282) has no cleanup
twoStream_unmount ==
    /\ timers' = correctionEffectCleanup(debounceClearsTimer(timers))
    /\ requests' = debounceCleanupAborts(requests)
    /\ UNCHANGED pendingSuggestionTimerRef

\* the cleanup of the completer's effect (part_001 lines 100-107)
completer_unmount ==
    /\ timers' = debounceClearsTimer(timers)
    /\ requests' = completer_cleanupAborts(requests)
    /\ UNCHANGED pendingSuggestionTimerRef

\* the parent stops rendering the editor; the textarea leaves the document
unmount ==
    /\ mounted
    /\ mounted' = FALSE
    /\ activeElement' = "body"
    /\ correctionCleanupTimer' = NoTimer
    /\ CASE corrector -> corrector_unmount
         [] twoStream -> twoStream_unmount
         [] completer -> completer_unmount
    /\ UNCHANGED << variant, studio, now, editorState, issued, completionRefs,
                    correctionAbortControllerRef, cooldownRefs, tabRefs >>

\* a fetch settles after the unmount: the setState calls of lines 103-117 are
\* ignored, the assignments to the refs (lines 104-105) are not
unmountedSettles(r, ok, completion) ==
    /\ ~mounted
    /\ r \in requests
    /\ completion \in Answers(r.kind, r.prompt)
    /\ requests' = requests \ {r}
    /\ lastSuggestionTimestampRef' =
          IF corrector /\ r.kind = "correct" /\ correctionAccepted(r, ok, completion)
          THEN now ELSE lastSuggestionTimestampRef
    /\ hasProvidedSuggestionRef' =
          IF corrector /\ r.kind = "correct" /\ correctionAccepted(r, ok, completion)
          THEN TRUE ELSE hasProvidedSuggestionRef
    /\ UNCHANGED << variant, mounted, studio, activeElement, now, editorState, timers,
                    issued, completionRefs, correctionAbortControllerRef,
                    pendingSuggestionTimerRef, correctionCleanupTimer, tabRefs >>

lifecycleNext ==
    \/ mounted /\ Next
    \/ unmount
    \/ \E t \in timers : ~mounted /\ tabTimerFires(t)
    \/ \E r \in requests, ok \in BOOLEAN : \E c \in Answers(r.kind, r.prompt) :
          unmountedSettles(r, ok, c)
    \/ ~mounted /\ Tick

LifecycleSpec == Init /\ [][lifecycleNext]_vars

\* the timers left after the unmount are window timers of the double Tab (the
\* only callbacks lifecycleNext has to run for an unmounted editor)
OnlyTabTimersSurviveUnmount == ~mounted => \A t \in timers : t.kind = "tab"

\* C27, timers: once the editor is unmounted no timer of the session is pending.
C27_NoTimerAfterUnmount == ~mounted => timers = {}

\* C27, responses: a fetch that settles after the unmount changes neither the
\* editor's state nor its cooldown refs.
C27_NoMutationAfterUnmount ==
    [][(~mounted /\ requests' # requests) =>
          UNCHANGED << editorState, cooldownRefs, tabRefs >>]_vars

\* C27: after the editor unmounts no timer of the session remains pending and
\* no response of a request still in flight changes the session's state.
C27_UnmountLeavesNothingBehind ==
    /\ []C27_NoTimerAfterUnmount
    /\ C27_NoMutationAfterUnmount

----------------------------------------------------------------------------
(* The busy flags *)

busyFlag(kind) == IF kind = "complete" THEN isLoading ELSE isCorrecting

\* nothing of this kind is left to run: no request in flight or aborted and
\* not yet settled, and no timer whose callback fetches
quiescent(kind) ==
    /\ requestsOfKind(requests, kind) = {}
    /\ \A t \in timers : t.kind # kind

\* in a quiescent state only a user event (a change of the text or of the
\* focus) makes a busy flag false, so a flag that is true there stays true
\* for as long as the user does nothing
StuckFlagNeedsUserEvent ==
    [][\A kind \in {"complete", "correct"} :
          (quiescent(kind) /\ busyFlag(kind) /\ ~busyFlag(kind)') =>
             (value' # value \/ isFocused' # isFocused)]_vars

\* C30: in every version of the editor, whenever every request of a kind has
\* been answered or has settled as aborted and no fetch of that kind is
\* scheduled, the busy flag of that kind is false (otherwise, by
\* StuckFlagNeedsUserEvent, it is true forever once the user stops typing).
C30_BusyFlagFollowsRequests ==
    \A kind \in {"complete", "correct"} : quiescent(kind) => ~busyFlag(kind)

====
